---- MODULE Spec2Model ----
(***************************************************************************)
(* The tool-calling orchestration of anthropic_rooms_pkg:                  *)
(* actions/chat_completion.py (chat_completion and its tool execution      *)
(* adapter _execute_tool_with_retries), driven by a remote model, tool     *)
(* functions and an observer callback that are the environment (Spec);     *)
(* several calls that share one tool registry (RunsSpec); and the methods  *)
(* of AnthropicRoomsAddon in addon.py with the ToolRegistry of             *)
(* tools/base.py (AddonSpec).                                              *)
(***************************************************************************)
EXTENDS Integers, Sequences, FiniteSets, TLC

\* ------------------------------------------------------------------ bounds
\* content blocks the remote model may emit over one run (all responses)
MaxBlocks == 3
\* largest max_retries a registry configures for a tool
MaxRetries == 1

\* ------------------------------------------------------------ python values
\* Python's None where a string is expected (error_message)
PyNone == "<None>"

\* f"{x}" of an Optional[str]
Fmt(x) == IF x = PyNone THEN "None" ELSE x

\* truthiness of an Optional[str] (`if error_message:`)
Truthy(x) == x # PyNone /\ x # ""

\* Values a tool function can return. shape "str": a plain string; "none":
\* None; "obj": an object with attributes; "dict": a mapping.
ToolValue(shape, val, hasCode, code, hasMsg, msg) ==
    [shape |-> shape, val |-> val, hasCode |-> hasCode, code |-> code,
     hasMsg |-> hasMsg, msg |-> msg]

NoneResult == ToolValue("none", "", FALSE, 0, FALSE, "")

StrResult(s) == ToolValue("str", s, FALSE, 0, FALSE, "")

ObjResult(hasCode, code, hasMsg, msg) == ToolValue("obj", "", hasCode, code, hasMsg, msg)

DictResult(hasCode, code, hasMsg, msg) == ToolValue("dict", "", hasCode, code, hasMsg, msg)

\* the sentinel the adapter returns to ask for a retry: the string "RETRY"
RETRY == StrResult("RETRY")

\* str(tool_result)
Str(r) ==
    CASE r.shape = "str" -> r.val
      [] r.shape = "none" -> "None"
      [] r.shape = "obj" ->
            "<obj" \o (IF r.hasCode THEN " code=" \o ToString(r.code) ELSE "")
                   \o (IF r.hasMsg THEN " message=" \o r.msg ELSE "") \o ">"
      [] OTHER ->
            "{" \o (IF r.hasCode THEN "code: " \o ToString(r.code) ELSE "")
                \o (IF r.hasMsg THEN " message: " \o r.msg ELSE "") \o "}"

\* ------------------------------------------------- outcome classification
\* _determine_tool_success taking an attribute code of 400 for a success
_determine_tool_success_Above(tool_result) ==
    IF tool_result.shape = "obj" /\ tool_result.hasCode
    THEN tool_result.code <= 400
    ELSE IF tool_result.shape = "dict"
         THEN ~(tool_result.hasCode /\ tool_result.code >= 400)
         ELSE TRUE

_determine_tool_success(tool_result) ==
    IF tool_result.shape = "obj" /\ tool_result.hasCode
    THEN tool_result.code < 400
    ELSE IF tool_result.shape = "dict"
         THEN ~(tool_result.hasCode /\ tool_result.code >= 400)
         ELSE TRUE

_extract_error_message(tool_result) ==
    IF tool_result.shape = "obj" /\ tool_result.hasMsg /\ tool_result.hasCode
       /\ tool_result.code >= 400
    THEN tool_result.msg
    ELSE IF tool_result.shape = "dict"
         THEN IF tool_result.hasCode /\ tool_result.code >= 400
              THEN IF tool_result.hasMsg THEN tool_result.msg
                   ELSE "Tool execution completed with errors"
              ELSE PyNone
         ELSE PyNone

\* ---------------------------------------------------------- input coercion
\* Values of a tool-input parameter: a string, None, or a native structure
\* (the dict, list or set a text denotes).
StrV(s) == [kind |-> "str", text |-> s]

NoneV == [kind |-> "none", text |-> ""]

NativeV(s) == [kind |-> "native", text |-> s]

\* a tool input: None, or a mapping from parameter names to values
NoInput == [isNone |-> TRUE, items |-> <<>>]

DictInput(items) == [isNone |-> FALSE, items |-> items]

\* what a call gives back: a value, or the exception that leaves it
Return(v) == [raised |-> FALSE, exc |-> "", value |-> v]

Raise(e) == [raised |-> TRUE, exc |-> e, value |-> NoneV]

\* str.strip() on texts whose only whitespace is the blank
RECURSIVE Strip(_)
Strip(s) ==
    IF Len(s) = 0 THEN s
    ELSE IF SubSeq(s, 1, 1) = " " THEN Strip(SubSeq(s, 2, Len(s)))
    ELSE IF SubSeq(s, Len(s), Len(s)) = " " THEN Strip(SubSeq(s, 1, Len(s) - 1))
    ELSE s

\* str.startswith(('{', '['))
StartsWithBracket(s) == Len(s) > 0 /\ SubSeq(s, 1, 1) \in {"{", "["}

\* json.loads: the value, or json.JSONDecodeError
json_loads(s) ==
    IF s \in {"[1, 2]"} THEN Return(NativeV(s)) ELSE Raise("JSONDecodeError")

\* ast.literal_eval: the value, or the exception it raises (an unhashable
\* key raises TypeError while the literal is built)
literal_eval(s) ==
    CASE s \in {"[1, 2]", "{'a': 1}"} -> Return(NativeV(s))
      [] s = "{[1]: 2}" -> Raise("TypeError")
      [] s = "[x]" -> Raise("ValueError")
      [] OTHER -> Raise("SyntaxError")

\* CoerceString coercing whatever the declared type is
CoerceString_AnyType(param_value, param_schema) ==
    IF StartsWithBracket(Strip(param_value.text))
    THEN LET j == json_loads(param_value.text)
             l == literal_eval(param_value.text)
         IN  IF ~j.raised THEN j
             ELSE IF ~l.raised THEN l
             ELSE IF l.exc \in {"ValueError", "SyntaxError"} THEN Return(param_value)
             ELSE l
    ELSE IF Strip(param_value.text) \in {"null", "None", ""}
         THEN IF param_schema.default \in {"absent", "null"}
              THEN Return(NoneV) ELSE Return(param_value)
         ELSE Return(param_value)

\* CoerceString turning every nullish text into None
CoerceString_IgnoreDefault(param_value, param_schema) ==
    IF param_schema.type \in {"object", "array"}
    THEN IF StartsWithBracket(Strip(param_value.text))
         THEN LET j == json_loads(param_value.text)
                  l == literal_eval(param_value.text)
              IN  IF ~j.raised THEN j
                  ELSE IF ~l.raised THEN l
                  ELSE IF l.exc \in {"ValueError", "SyntaxError"} THEN Return(param_value)
                  ELSE l
         ELSE IF Strip(param_value.text) \in {"null", "None", ""}
              THEN Return(NoneV)
              ELSE Return(param_value)
    ELSE Return(param_value)

\* lines 55-78: a declared parameter whose value is a string
CoerceString(param_value, param_schema) ==
    IF param_schema.type \in {"object", "array"}
    THEN IF StartsWithBracket(Strip(param_value.text))
         THEN LET j == json_loads(param_value.text)
                  l == literal_eval(param_value.text)
              IN  IF ~j.raised THEN j
                  ELSE IF ~l.raised THEN l
                  ELSE IF l.exc \in {"ValueError", "SyntaxError"} THEN Return(param_value)
                  ELSE l
         ELSE IF Strip(param_value.text) \in {"null", "None", ""}
              THEN IF param_schema.default \in {"absent", "null"}
                   THEN Return(NoneV) ELSE Return(param_value)
              ELSE Return(param_value)
    ELSE Return(param_value)

\* lines 35-80; tools is None or a mapping from tool names to definitions
_parse_tool_input(tool_input, tool_name, tools) ==
    IF tool_input.isNone \/ DOMAIN tool_input.items = {} THEN Return(tool_input)
    ELSE IF tools.isNone THEN Raise("TypeError")
    ELSE IF tool_name \notin DOMAIN tools.defs THEN Return(tool_input)
    ELSE LET properties == IF tools.defs[tool_name].hasSchema
                           THEN tools.defs[tool_name].properties ELSE <<>>
             each == [param_name \in DOMAIN tool_input.items |->
                         IF \/ param_name \notin DOMAIN properties
                            \/ tool_input.items[param_name].kind # "str"
                         THEN Return(tool_input.items[param_name])
                         ELSE CoerceString(tool_input.items[param_name],
                                           properties[param_name])]
             failed == { q \in DOMAIN each : each[q].raised }
         IN  IF DOMAIN properties = {} THEN Return(tool_input)
             ELSE IF failed # {} THEN Raise(each[CHOOSE q \in failed : TRUE].exc)
             ELSE Return(DictInput([q \in DOMAIN each |-> each[q].value]))

\* ------------------------------------------------------------ environment
\* names the remote model may put in a tool-use block
ToolNames == {"add", "mul"}

\* A registered tool function is known by what it may do when invoked: the
\* values it may return and whether it may raise.
ToolFunctions ==
    { [returns |-> { StrResult("4"), ObjResult(TRUE, 500, TRUE, "boom") }, may_raise |-> TRUE],
      [returns |-> { NoneResult, StrResult("RETRY"), ObjResult(TRUE, 500, FALSE, ""),
                     DictResult(TRUE, 404, FALSE, "") },
       may_raise |-> FALSE] }

\* the returns after which an observer fault is considered: a success and a
\* classified failure
FaultedReturns == { StrResult("4"), ObjResult(TRUE, 500, TRUE, "boom") }

\* one execution of tool function fn and of the observer around it: the
\* function raises or returns value; f1 / f2: the observer raises when it is
\* notified in the try block / in the except handler. Only the choices that
\* the adapter can tell apart are listed: no observer fault without an
\* observer, no f2 unless the except handler is entered.
ToolRuns(obs, fn) ==
    [raises : {FALSE}, value : fn.returns, f1 : {FALSE}, f2 : {FALSE}]
    \cup (IF fn.may_raise
          THEN [raises : {TRUE}, value : {NoneResult}, f1 : {FALSE}, f2 : {FALSE} \cup {obs}]
          ELSE {})
    \cup (IF obs
          THEN [raises : {FALSE}, value : fn.returns \cap FaultedReturns, f1 : {TRUE},
                f2 : BOOLEAN]
          ELSE {})

\* usage (input_tokens, output_tokens) and stop reason of a response
ResponseMetas == { <<1, 2, "tool_use">>, <<3, 5, "end_turn">> }

\* the block at position i of the n-th response; its id and text are its place
Block(kind, n, i) ==
    IF kind = "text"
    THEN [type |-> "text", name |-> "", id |-> <<n, i>>,
          text |-> "t" \o ToString(n) \o "." \o ToString(i) \o " "]
    ELSE [type |-> "tool_use", name |-> kind, id |-> <<n, i>>, text |-> ""]

BlockKinds == {"text"} \cup ToolNames

\* the contents of the n-th response, of at most k blocks
Contents(n, k) ==
    UNION { { [i \in 1..len |-> Block(ks[i], n, i)] : ks \in [1..len -> BlockKinds] }
            : len \in 0..k }

\* the stop reason the remote model gives with a content: "tool_use" when it
\* asks for a tool
StopReasonOf(c) ==
    IF \E i \in DOMAIN c : c[i].type = "tool_use" THEN "tool_use" ELSE "end_turn"

Responses(n, k) ==
    UNION { { [content |-> c, input_tokens |-> m[1], output_tokens |-> m[2],
               stop_reason |-> m[3]] : m \in { x \in ResponseMetas : x[3] = StopReasonOf(c) } }
            : c \in Contents(n, k) }

NoResponse ==
    [content |-> <<>>, input_tokens |-> 0, output_tokens |-> 0, stop_reason |-> "<unset>"]

\* configuration objects: secrets is absent ("noattr"), lacks the key, holds
\* an empty key or a key; the model attribute exists or not
Configs == [secrets : {"noattr", "nokey", "empty", "set"}, has_model : BOOLEAN]

\* tool registries handed to chat_completion: none, the ToolRegistry of
\* tools/base.py, or an object that also answers get_max_retries. functions:
\* the names it holds a function for; fn: that function; max_retries: the
\* budget per name. (The function is never reached through the first two.)
Registries ==
    { [kind |-> "None", functions |-> {}, fn |-> f,
       max_retries |-> [t \in ToolNames |-> 0]] : f \in {CHOOSE g \in ToolFunctions : g.may_raise} }
    \cup { [kind |-> "ToolRegistry", functions |-> {"add"}, fn |-> f,
             max_retries |-> [t \in ToolNames |-> 0]]
           : f \in {CHOOSE g \in ToolFunctions : g.may_raise} }
    \cup { [kind |-> "WithMaxRetries", functions |-> {"add"}, fn |-> f,
             max_retries |-> [t \in ToolNames |-> IF t = "add" THEN m ELSE 0]]
           : f \in ToolFunctions, m \in 0..MaxRetries }

\* ------------------------------------------------------------- tool registry
\* whether the registry object has a get_max_retries method
HasGetMaxRetries(tool_registry) == tool_registry.kind = "WithMaxRetries"

get_max_retries(tool_registry, tool_name) == tool_registry.max_retries[tool_name]

\* ToolRegistry.get_function: TRUE when a function is stored under the name
get_function(tool_registry, tool_name) == tool_name \in tool_registry.functions

\* ---------------------------------------------------------- execution adapter
RetryGuidance(tool_name, error_message) ==
    [role |-> "user", form |-> "text",
     content |-> "The " \o tool_name \o " tool failed with error: " \o Fmt(error_message)
                 \o ". Please try again with corrected parameters."]

\* what one call of the adapter did: raised / exc when an exception left it,
\* else (tool_result, error_message); the counters and conversation after it;
\* branch names the return statement taken
AdapterOut(raised, exc, tool_result, error_message, counts, conv, invoked, notified, branch) ==
    [raised |-> raised, exc |-> exc, tool_result |-> tool_result,
     error_message |-> error_message, tool_retry_counts |-> counts,
     conversation_messages |-> conv, invoked |-> invoked, notified |-> notified,
     branch |-> branch]
\* AdapterExcept with the budget test of line 160 off by one
AdapterExcept_OffByOne(tool_name, max_retries, tool_retry_counts, conversation_messages, observer, run, error_msg, notified) ==
    LET current_retry == tool_retry_counts[tool_name]
        n == IF observer THEN notified + 1 ELSE notified
    IN  IF observer /\ run.f2
        THEN AdapterOut(TRUE, "observer error", NoneResult, PyNone, tool_retry_counts,
                        conversation_messages, TRUE, n, "observer_raised")
        ELSE IF current_retry > max_retries
        THEN AdapterOut(FALSE, "", NoneResult, error_msg, tool_retry_counts,
                        conversation_messages, TRUE, n, "exception_terminal")
        ELSE AdapterOut(FALSE, "", RETRY, error_msg,
                        [tool_retry_counts EXCEPT ![tool_name] = current_retry + 1],
                        Append(conversation_messages, RetryGuidance(tool_name, error_msg)),
                        TRUE, n, "exception_retry")

\* the except handler of the adapter, entered with str(e) and the number of
\* observer notifications made so far
AdapterExcept(tool_name, max_retries, tool_retry_counts, conversation_messages, observer, run, error_msg, notified) ==
    LET current_retry == tool_retry_counts[tool_name]
        n == IF observer THEN notified + 1 ELSE notified
    IN  IF observer /\ run.f2
        THEN AdapterOut(TRUE, "observer error", NoneResult, PyNone, tool_retry_counts,
                        conversation_messages, TRUE, n, "observer_raised")
        ELSE IF current_retry >= max_retries
        THEN AdapterOut(FALSE, "", NoneResult, error_msg, tool_retry_counts,
                        conversation_messages, TRUE, n, "exception_terminal")
        ELSE AdapterOut(FALSE, "", RETRY, error_msg,
                        [tool_retry_counts EXCEPT ![tool_name] = current_retry + 1],
                        Append(conversation_messages, RetryGuidance(tool_name, error_msg)),
                        TRUE, n, "exception_retry")

\* the try block of the adapter after the tool function returned tool_result
AdapterReturned(tool_name, max_retries, tool_retry_counts, conversation_messages, observer, run, tool_result) ==
    LET current_retry == tool_retry_counts[tool_name]
        success == _determine_tool_success(tool_result)
        error_message == IF ~success THEN _extract_error_message(tool_result) ELSE PyNone
        n == IF observer THEN 1 ELSE 0
    IN  IF observer /\ run.f1
        THEN AdapterExcept(tool_name, max_retries, tool_retry_counts,
                           conversation_messages, observer, run, "observer error", 1)
        ELSE IF success \/ current_retry >= max_retries
        THEN AdapterOut(FALSE, "", tool_result, error_message, tool_retry_counts,
                        conversation_messages, TRUE, n,
                        IF success THEN "success" ELSE "failure_terminal")
        ELSE AdapterOut(FALSE, "", RETRY, error_message,
                        [tool_retry_counts EXCEPT ![tool_name] = current_retry + 1],
                        IF Truthy(error_message)
                        THEN Append(conversation_messages,
                                    RetryGuidance(tool_name, error_message))
                        ELSE conversation_messages,
                        TRUE, n, "failure_retry")

_execute_tool_with_retries(tool_name, tool_registry, tool_retry_counts, conversation_messages, observer, run) ==
    IF ~HasGetMaxRetries(tool_registry)
    THEN AdapterOut(TRUE, "'ToolRegistry' object has no attribute 'get_max_retries'",
                    NoneResult, PyNone, tool_retry_counts, conversation_messages,
                    FALSE, 0, "lookup_raised")
    ELSE LET max_retries == get_max_retries(tool_registry, tool_name)
         IN  IF ~get_function(tool_registry, tool_name)
             THEN AdapterOut(FALSE, "", NoneResult, "Tool " \o tool_name \o " not found",
                             tool_retry_counts, conversation_messages, FALSE, 0, "not_found")
             ELSE IF run.raises
             THEN AdapterExcept(tool_name, max_retries, tool_retry_counts,
                                conversation_messages, observer, run, "tool error", 0)
             ELSE AdapterReturned(tool_name, max_retries, tool_retry_counts,
                                  conversation_messages, observer, run, run.value)

\* ------------------------------------------------------------- orchestrator
VARIABLES
    pc,                     \* where chat_completion stands
    config,                 \* the configuration object passed in
    tool_registry,          \* the registry passed in
    observer,               \* observer_callback and addon_id are both given
    conversation_messages,
    response,               \* the first response
    current_response,
    all_responses,
    response_text,
    tool_results,
    tool_retry_counts,
    should_retry,
    idx,                    \* position of the for loop over the content blocks
    result,                 \* the ActionResponse returned
    trace,                  \* history: every remote request and adapter call
    runs,                   \* the chat_completion calls that share one registry
    addon,                  \* the fields of an AnthropicRoomsAddon
    last,                   \* history: the last operation called on the addon
    pure,                   \* a helper function, its arguments and what it gave
    flight                  \* a call of AnthropicRoomsAddon.chat_completion under way

\* the state of one chat_completion call
call_vars ==
    <<pc, config, conversation_messages, response, current_response, all_responses,
      response_text, tool_results, tool_retry_counts, should_retry, idx, result, trace>>

vars == <<call_vars, tool_registry, observer, runs, addon, last, pure, flight>>

\* what a single chat_completion call leaves alone
others == <<runs, addon, last, pure, flight>>

UserMessage == [role |-> "user", form |-> "text", content |-> "What's 2+2?"]

Usage(i, o, t) == [input_tokens |-> i, output_tokens |-> o, total_tokens |-> t]

NoResult ==
    [code |-> 0, message |-> "", response |-> "", usage |-> Usage(0, 0, 0),
     stop_reason |-> "", tokens |-> 0]

\* the ActionResponse built by the except handler of chat_completion
FailureResult(e) ==
    [code |-> 500, message |-> "Chat completion failed: " \o e,
     response |-> "Error: " \o e, usage |-> Usage(0, 0, 0),
     stop_reason |-> "error", tokens |-> 0]

\* the except handler of chat_completion: it reads config.model
Except(cfg, e) ==
    IF cfg.has_model
    THEN [pc |-> "done", result |-> FailureResult(e)]
    ELSE [pc |-> "escaped", result |-> NoResult]

\* the exception the first statements of the try block raise, "" when none
ConfigError(cfg) ==
    CASE cfg.secrets = "noattr" -> "object has no attribute 'secrets'"
      [] cfg.secrets = "nokey" -> "'anthropic_api_key'"
      [] cfg.secrets = "empty" -> "Anthropic API key not found in credentials"
      [] ~cfg.has_model -> "object has no attribute 'model'"
      [] OTHER -> ""

\* the n-th request: the conversation sent with it and the response, if any
RequestEvent(n, ok, r) ==
    [ev |-> "request", n |-> n, ok |-> ok, response |-> r,
     sent |-> conversation_messages]

\* the run recorded for an adapter call that did not reach the tool function
NoRun == [raises |-> FALSE, value |-> NoneResult, f1 |-> FALSE, f2 |-> FALSE]

ToolEvent(n, block, run, before, out, appended, content) ==
    [ev |-> "tool", n |-> n, id |-> block.id, name |-> block.name,
     run |-> IF out.invoked THEN run ELSE NoRun,
     before |-> before, after |-> out.tool_retry_counts, raised |-> out.raised,
     tool_result |-> out.tool_result, error_message |-> out.error_message,
     invoked |-> out.invoked, notified |-> out.notified, branch |-> out.branch,
     appended |-> appended, content |-> content]

Events(kind) == SelectSeq(trace, LAMBDA e : e.ev = kind)

\* number of requests sent to the remote model so far
Requests == Len(Events("request"))

RECURSIVE BlocksIn(_)
BlocksIn(events) ==
    IF events = <<>> THEN 0
    ELSE Len(Head(events).response.content) + BlocksIn(Tail(events))

\* blocks the remote model may still emit
BlocksLeft == MaxBlocks - BlocksIn(Events("request"))

\* ----- the state of the objects around one call, before anything is called
\* the chat_completion calls made on one registry
RunIds == {1, 2}

\* a call that has not been made yet
IdleRun ==
    [pc |-> "idle", tool_retry_counts |-> [t \in ToolNames |-> 0],
     conversation_messages |-> <<>>, log |-> <<>>]

\* names under which credentials are supplied and secrets are required
CredNames == {"anthropic_api_key", "other_key"}

\* AnthropicRoomsAddon.__init__: config = {}, an empty CredentialsRegistry, an
\* empty ToolRegistry; the class sets no observer_callback and no addon_id
NewAddon ==
    [config |-> [loaded |-> FALSE, secrets |-> {}],
     credentials |-> [n \in CredNames |-> PyNone],
     tool_registry |-> [functions |-> {}, tool_definitions |-> <<>>],
     observer_callback |-> FALSE]

NoKwargs == [temperature |-> PyNone, tools |-> <<>>, has_tools |-> FALSE,
             has_tool_registry |-> FALSE, observer_callback |-> FALSE]

\* no operation was called on the addon yet
NoLast ==
    [op |-> "__init__", prev |-> "", before |-> NewAddon, args |-> <<>>, ret |-> PyNone,
     passed |-> NoKwargs]

\* no helper function is under study
NoPure == [fn |-> "", applied |-> FALSE, args |-> <<>>, out |-> Return(NoneV)]

\* no call through the addon is under way
NoFlight == [pc |-> "idle", passed |-> NoKwargs, at_start |-> <<>>, rounds |-> <<>>]

Init ==
    /\ runs = [r \in RunIds |-> IdleRun]
    /\ addon = NewAddon
    /\ last = NoLast
    /\ pure = NoPure
    /\ flight = NoFlight
    /\ pc = "init"
    /\ config \in Configs
    /\ tool_registry \in Registries
    /\ observer \in BOOLEAN
    /\ conversation_messages = <<>>
    /\ response = NoResponse
    /\ current_response = NoResponse
    /\ all_responses = <<>>
    /\ response_text = ""
    /\ tool_results = <<>>
    /\ tool_retry_counts = [t \in ToolNames |-> 0]
    /\ should_retry = FALSE
    /\ idx = 0
    /\ result = NoResult
    /\ trace = <<>>

Leave(e) ==
    /\ pc' = Except(config, e).pc
    /\ result' = Except(config, e).result

\* lines 183-238: credentials, parameters, the conversation
Begin ==
    /\ UNCHANGED others
    /\ pc = "init"
    /\ IF ConfigError(config) # ""
       THEN /\ Leave(ConfigError(config))
            /\ UNCHANGED conversation_messages
       ELSE /\ conversation_messages' = <<UserMessage>>
            /\ pc' = "call_first"
            /\ UNCHANGED result
    /\ UNCHANGED <<config, tool_registry, observer, response, current_response,
                   all_responses, response_text, tool_results, tool_retry_counts,
                   should_retry, idx, trace>>

\* line 240-244: the first request
CallFirst ==
    /\ UNCHANGED others
    /\ pc = "call_first"
    /\ \/ /\ trace' = Append(trace, RequestEvent(1, FALSE, NoResponse))
          /\ Leave("remote error")
          /\ UNCHANGED <<response, response_text, tool_results, tool_retry_counts, idx>>
       \/ \E r \in Responses(1, BlocksLeft) :
          /\ trace' = Append(trace, RequestEvent(1, TRUE, r))
          /\ response' = r
          /\ response_text' = ""
          /\ tool_results' = <<>>
          /\ tool_retry_counts' = [t \in ToolNames |-> 0]
          /\ idx' = 1
          /\ pc' = "blocks_first"
          /\ UNCHANGED result
    /\ UNCHANGED <<config, tool_registry, observer, conversation_messages,
                   current_response, all_responses, should_retry>>

\* the response whose content blocks are being processed
Cur == IF pc = "blocks_first" THEN response ELSE current_response

InBlocks == pc \in {"blocks_first", "blocks_next"} /\ idx <= Len(Cur.content)

\* ToolResultBlock carrying the id of the first block of the response
ToolResultBlock_FirstId(tool_id, content) ==
    [type |-> "tool_result", tool_use_id |-> <<tool_id[1], 1>>, content |-> content]

ToolResultBlock(tool_id, content) ==
    [type |-> "tool_result", tool_use_id |-> tool_id, content |-> content]

\* ProcessText keeping only the text of the last block
ProcessText_Overwrite ==
    /\ UNCHANGED others
    /\ InBlocks
    /\ Cur.content[idx].type = "text"
    /\ response_text' = Cur.content[idx].text
    /\ idx' = idx + 1
    /\ UNCHANGED <<pc, config, tool_registry, observer, conversation_messages,
                   response, current_response, all_responses, tool_results,
                   tool_retry_counts, should_retry, result, trace>>

\* lines 248-249 / 329-330
ProcessText ==
    /\ UNCHANGED others
    /\ InBlocks
    /\ Cur.content[idx].type = "text"
    /\ response_text' = response_text \o Cur.content[idx].text
    /\ idx' = idx + 1
    /\ UNCHANGED <<pc, config, tool_registry, observer, conversation_messages,
                   response, current_response, all_responses, tool_results,
                   tool_retry_counts, should_retry, result, trace>>

\* SkipToolUse answering the block with a tool-result block
SkipToolUse_Answered ==
    /\ UNCHANGED others
    /\ InBlocks
    /\ Cur.content[idx].type = "tool_use"
    /\ tool_registry.kind = "None"
    /\ tool_results' = Append(tool_results,
                              ToolResultBlock(Cur.content[idx].id, "no tool registry"))
    /\ idx' = idx + 1
    /\ UNCHANGED <<pc, config, tool_registry, observer, conversation_messages,
                   response, current_response, all_responses, response_text,
                   tool_retry_counts, should_retry, result, trace>>

\* a tool_use block when no registry was passed: neither branch is taken
SkipToolUse ==
    /\ UNCHANGED others
    /\ InBlocks
    /\ Cur.content[idx].type = "tool_use"
    /\ tool_registry.kind = "None"
    /\ idx' = idx + 1
    /\ UNCHANGED <<pc, config, tool_registry, observer, conversation_messages,
                   response, current_response, all_responses, response_text,
                   tool_results, tool_retry_counts, should_retry, result, trace>>

\* the content of the tool-result block built from what the adapter returned,
\* PyNone when no block is built (lines 261-277 / 343-359)
ResultContent(out) ==
    IF out.raised \/ out.tool_result = RETRY THEN PyNone
    ELSE IF out.tool_result # NoneResult THEN Str(out.tool_result)
    ELSE "Error executing tool: " \o Fmt(out.error_message)

\* ProcessToolUse putting the new tool-result block in front of the others
ProcessToolUse_Prepend ==
    /\ UNCHANGED others
    /\ InBlocks
    /\ Cur.content[idx].type = "tool_use"
    /\ tool_registry.kind # "None"
    /\ \E run \in ToolRuns(observer, tool_registry.fn) :
         LET block == Cur.content[idx]
             out == _execute_tool_with_retries(block.name, tool_registry,
                        tool_retry_counts, conversation_messages, observer, run)
             content == ResultContent(out)
             appended == Len(out.conversation_messages) - Len(conversation_messages)
         IN  /\ trace' = Append(trace, ToolEvent(Requests, block, run, tool_retry_counts,
                                                 out, appended, content))
             /\ tool_retry_counts' = out.tool_retry_counts
             /\ conversation_messages' = out.conversation_messages
             /\ IF out.raised
                THEN /\ Leave(out.exc)
                     /\ UNCHANGED <<should_retry, tool_results, idx>>
                ELSE /\ should_retry' = (should_retry \/ out.tool_result = RETRY)
                     /\ tool_results' =
                            IF out.tool_result = RETRY THEN tool_results
                            ELSE <<ToolResultBlock(block.id, content)>> \o tool_results
                     /\ idx' = idx + 1
                     /\ UNCHANGED <<pc, result>>
    /\ UNCHANGED <<config, tool_registry, observer, response, current_response,
                   all_responses, response_text>>

\* lines 250-277 / 331-359: one tool_use block through the adapter
ProcessToolUse ==
    /\ UNCHANGED others
    /\ InBlocks
    /\ Cur.content[idx].type = "tool_use"
    /\ tool_registry.kind # "None"
    /\ \E run \in ToolRuns(observer, tool_registry.fn) :
         LET block == Cur.content[idx]
             out == _execute_tool_with_retries(block.name, tool_registry,
                        tool_retry_counts, conversation_messages, observer, run)
             content == ResultContent(out)
             appended == Len(out.conversation_messages) - Len(conversation_messages)
         IN  /\ trace' = Append(trace, ToolEvent(Requests, block, run, tool_retry_counts,
                                                 out, appended, content))
             /\ tool_retry_counts' = out.tool_retry_counts
             /\ conversation_messages' = out.conversation_messages
             /\ IF out.raised
                THEN /\ Leave(out.exc)
                     /\ UNCHANGED <<should_retry, tool_results, idx>>
                ELSE /\ should_retry' = (should_retry \/ out.tool_result = RETRY)
                     /\ tool_results' =
                            IF out.tool_result = RETRY THEN tool_results
                            ELSE Append(tool_results, ToolResultBlock(block.id, content))
                     /\ idx' = idx + 1
                     /\ UNCHANGED <<pc, result>>
    /\ UNCHANGED <<config, tool_registry, observer, response, current_response,
                   all_responses, response_text>>

\* lines 279-282, after the blocks of the first response
EndFirst ==
    /\ UNCHANGED others
    /\ pc = "blocks_first"
    /\ idx > Len(response.content)
    /\ all_responses' = <<response>>
    /\ current_response' = response
    /\ should_retry' = FALSE
    /\ pc' = "loop"
    /\ UNCHANGED <<config, tool_registry, observer, conversation_messages, response,
                   response_text, tool_results, tool_retry_counts, idx, result, trace>>

\* the end of the for loop of a later round
EndNext ==
    /\ UNCHANGED others
    /\ pc = "blocks_next"
    /\ idx > Len(current_response.content)
    /\ pc' = "loop"
    /\ UNCHANGED <<config, tool_registry, observer, conversation_messages, response,
                   current_response, all_responses, response_text, tool_results,
                   tool_retry_counts, should_retry, idx, result, trace>>
\* LoopCondition with the retry flag negated
LoopCondition_Negated(results, retry) == results # <<>> \/ ~retry

\* line 283: the condition of the while loop
LoopCondition(results, retry) == results # <<>> \/ retry

AssistantEcho(r) == [role |-> "assistant", form |-> "blocks", content |-> r.content]

ToolResultsMessage(results) == [role |-> "user", form |-> "results", content |-> results]

\* LoopContinue appending the assistant message after the tool results
LoopContinue_EchoLast ==
    /\ UNCHANGED others
    /\ pc = "loop"
    /\ LoopCondition(tool_results, should_retry)
    /\ conversation_messages' =
          IF ~should_retry
          THEN conversation_messages \o
               <<ToolResultsMessage(tool_results), AssistantEcho(current_response)>>
          ELSE conversation_messages
    /\ should_retry' = FALSE
    /\ pc' = "call_next"
    /\ UNCHANGED <<config, tool_registry, observer, response, current_response,
                   all_responses, response_text, tool_results, tool_retry_counts,
                   idx, result, trace>>
\* LoopContinue building the conversation anew from the last round
LoopContinue_Rebuild ==
    /\ UNCHANGED others
    /\ pc = "loop"
    /\ LoopCondition(tool_results, should_retry)
    /\ conversation_messages' =
          IF ~should_retry
          THEN <<UserMessage, AssistantEcho(current_response),
                 ToolResultsMessage(tool_results)>>
          ELSE conversation_messages
    /\ should_retry' = FALSE
    /\ pc' = "call_next"
    /\ UNCHANGED <<config, tool_registry, observer, response, current_response,
                   all_responses, response_text, tool_results, tool_retry_counts,
                   idx, result, trace>>
\* LoopContinue appending the two messages also when the retry flag is set
LoopContinue_AlwaysAppend ==
    /\ UNCHANGED others
    /\ pc = "loop"
    /\ LoopCondition(tool_results, should_retry)
    /\ conversation_messages' =
          conversation_messages \o
          <<AssistantEcho(current_response), ToolResultsMessage(tool_results)>>
    /\ should_retry' = FALSE
    /\ pc' = "call_next"
    /\ UNCHANGED <<config, tool_registry, observer, response, current_response,
                   all_responses, response_text, tool_results, tool_retry_counts,
                   idx, result, trace>>

\* lines 283-295: the loop goes on
LoopContinue ==
    /\ UNCHANGED others
    /\ pc = "loop"
    /\ LoopCondition(tool_results, should_retry)
    /\ conversation_messages' =
          IF ~should_retry
          THEN conversation_messages \o
               <<AssistantEcho(current_response), ToolResultsMessage(tool_results)>>
          ELSE conversation_messages
    /\ should_retry' = FALSE
    /\ pc' = "call_next"
    /\ UNCHANGED <<config, tool_registry, observer, response, current_response,
                   all_responses, response_text, tool_results, tool_retry_counts,
                   idx, result, trace>>
\* CallNext without the reset of tool_results of line 326
CallNext_KeepResults ==
    /\ UNCHANGED others
    /\ pc = "call_next"
    /\ \/ /\ trace' = Append(trace, RequestEvent(Requests + 1, FALSE, NoResponse))
          /\ Leave("remote error")
          /\ UNCHANGED <<current_response, all_responses, tool_results, idx>>
       \/ \E r \in Responses(Requests + 1, BlocksLeft) :
          /\ trace' = Append(trace, RequestEvent(Requests + 1, TRUE, r))
          /\ current_response' = r
          /\ all_responses' = Append(all_responses, r)
          /\ tool_results' = tool_results
          /\ idx' = 1
          /\ pc' = "blocks_next"
          /\ UNCHANGED result
    /\ UNCHANGED <<config, tool_registry, observer, conversation_messages, response,
                   response_text, tool_retry_counts, should_retry>>
\* CallNext resending the request after a remote failure
CallNext_Resend ==
    /\ UNCHANGED others
    /\ pc = "call_next"
    /\ \/ /\ trace' = Append(trace, RequestEvent(Requests + 1, FALSE, NoResponse))
          /\ UNCHANGED <<pc, result, current_response, all_responses, tool_results, idx>>
       \/ \E r \in Responses(Requests + 1, BlocksLeft) :
          /\ trace' = Append(trace, RequestEvent(Requests + 1, TRUE, r))
          /\ current_response' = r
          /\ all_responses' = Append(all_responses, r)
          /\ tool_results' = <<>>
          /\ idx' = 1
          /\ pc' = "blocks_next"
          /\ UNCHANGED result
    /\ UNCHANGED <<config, tool_registry, observer, conversation_messages, response,
                   response_text, tool_retry_counts, should_retry>>

\* lines 297-326: a further request
CallNext ==
    /\ UNCHANGED others
    /\ pc = "call_next"
    /\ \/ /\ trace' = Append(trace, RequestEvent(Requests + 1, FALSE, NoResponse))
          /\ Leave("remote error")
          /\ UNCHANGED <<current_response, all_responses, tool_results, idx>>
       \/ \E r \in Responses(Requests + 1, BlocksLeft) :
          /\ trace' = Append(trace, RequestEvent(Requests + 1, TRUE, r))
          /\ current_response' = r
          /\ all_responses' = Append(all_responses, r)
          /\ tool_results' = <<>>
          /\ idx' = 1
          /\ pc' = "blocks_next"
          /\ UNCHANGED result
    /\ UNCHANGED <<config, tool_registry, observer, conversation_messages, response,
                   response_text, tool_retry_counts, should_retry>>

RECURSIVE SumOf(_, _)
SumOf(rs, field) ==
    IF rs = <<>> THEN 0
    ELSE (IF field = "input_tokens" THEN Head(rs).input_tokens
          ELSE Head(rs).output_tokens) + SumOf(Tail(rs), field)
\* UsageInfo without the accumulation over the rounds
UsageInfo_FirstOnly(first, responses) ==
    Usage(first.input_tokens, first.output_tokens,
          first.input_tokens + first.output_tokens)

\* lines 361-372
UsageInfo(first, responses) ==
    IF Len(responses) > 1
    THEN Usage(SumOf(responses, "input_tokens"), SumOf(responses, "output_tokens"),
               SumOf(responses, "input_tokens") + SumOf(responses, "output_tokens"))
    ELSE Usage(first.input_tokens, first.output_tokens,
               first.input_tokens + first.output_tokens)

\* line 383: the stop reason put in the output
OutputStopReason(first, current) == first.stop_reason

\* lines 374-393
SuccessResult(text, usage, stop) ==
    [code |-> 200, message |-> "Chat completion successful", response |-> text,
     usage |-> usage, stop_reason |-> stop, tokens |-> usage.total_tokens]

\* lines 361-393: the loop is over, the result is returned
Finish ==
    /\ UNCHANGED others
    /\ pc = "loop"
    /\ ~LoopCondition(tool_results, should_retry)
    /\ result' = SuccessResult(response_text, UsageInfo(response, all_responses),
                               OutputStopReason(response, current_response))
    /\ pc' = "done"
    /\ UNCHANGED <<config, tool_registry, observer, conversation_messages, response,
                   current_response, all_responses, response_text, tool_results,
                   tool_retry_counts, should_retry, idx, trace>>

Next ==
    \/ Begin
    \/ CallFirst
    \/ ProcessText
    \/ SkipToolUse
    \/ ProcessToolUse
    \/ EndFirst
    \/ EndNext
    \/ LoopContinue
    \/ CallNext
    \/ Finish

Spec == Init /\ [][Next]_vars

\* ------------------------------------------ calls that share one registry
\* adapter calls one chat_completion call makes at most
MaxDispatches == 2

\* requests one call through the addon sends at most
MaxRounds == 2

\* the configuration of a call that passes the first statements
GoodConfig == [secrets |-> "set", has_model |-> TRUE]

\* the variables of the single call of Spec, at rest
CallAtRest ==
    /\ pc = "init"
    /\ config = GoodConfig
    /\ conversation_messages = <<>>
    /\ response = NoResponse
    /\ current_response = NoResponse
    /\ all_responses = <<>>
    /\ response_text = ""
    /\ tool_results = <<>>
    /\ tool_retry_counts = [t \in ToolNames |-> 0]
    /\ should_retry = FALSE
    /\ idx = 0
    /\ result = NoResult
    /\ trace = <<>>
\* InitialCounts with the counters of the other call taken over
InitialCounts_Shared(rs, r) == rs[CHOOSE o \in RunIds : o # r].tool_retry_counts

\* line 244: tool_retry_counts = {}, a local of the call r; rs are the calls
\* made on the registry so far
InitialCounts(rs, r) == [t \in ToolNames |-> 0]

DispatchEvent(r, name, run, before, out) ==
    [name |-> name, before |-> before, after |-> out.tool_retry_counts,
     branch |-> out.branch,
     failed |-> out.invoked /\ (run.raises \/ ~_determine_tool_success(run.value))]

RunsInit ==
    /\ CallAtRest
    /\ tool_registry \in Registries
    /\ observer = FALSE
    /\ runs = [r \in RunIds |-> IdleRun]
    /\ addon = NewAddon
    /\ last = NoLast
    /\ pure = NoPure
    /\ flight = NoFlight

\* lines 183-244: the call r begins, its conversation and counters are created
RunStart(r) ==
    /\ runs[r].pc = "idle"
    /\ runs' = [runs EXCEPT ![r] =
                  [pc |-> "running", tool_retry_counts |-> InitialCounts(runs, r),
                   conversation_messages |-> <<UserMessage>>, log |-> <<>>]]
    /\ UNCHANGED <<call_vars, tool_registry, observer, addon, last, pure, flight>>

\* lines 250-262 / 331-344: the call r sends one tool_use block through the
\* adapter, with its own counters and conversation
RunDispatch(r) ==
    /\ runs[r].pc = "running"
    /\ Len(runs[r].log) < MaxDispatches
    /\ tool_registry.kind # "None"
    /\ \E name \in ToolNames, run \in ToolRuns(observer, tool_registry.fn) :
         LET out == _execute_tool_with_retries(name, tool_registry,
                        runs[r].tool_retry_counts, runs[r].conversation_messages,
                        observer, run)
         IN  runs' = [runs EXCEPT ![r] =
                        [pc |-> IF out.raised THEN "done" ELSE "running",
                         tool_retry_counts |-> out.tool_retry_counts,
                         conversation_messages |-> out.conversation_messages,
                         log |-> Append(runs[r].log,
                                        DispatchEvent(r, name, run,
                                                      runs[r].tool_retry_counts, out))]]
    /\ UNCHANGED <<call_vars, tool_registry, observer, addon, last, pure, flight>>

\* lines 361-393: the call r returns
RunReturn(r) ==
    /\ runs[r].pc = "running"
    /\ runs' = [runs EXCEPT ![r].pc = "done"]
    /\ UNCHANGED <<call_vars, tool_registry, observer, addon, last, pure, flight>>

RunsNext ==
    \/ \E r \in RunIds : RunStart(r)
    \/ \E r \in RunIds : RunDispatch(r)
    \/ \E r \in RunIds : RunReturn(r)

RunsSpec == RunsInit /\ [][RunsNext]_vars

\* the RETRY signals the adapter gave for tool t in the first k events of a log
RetriesIn(log, t, k) ==
    Cardinality({ i \in 1..k : log[i].name = t
                                 /\ log[i].branch \in {"failure_retry", "exception_retry"} })

\* --------------------------------------------------------------- the addon
\* ToolRegistry.register_tools: every action named by a tool group of
\* tools_dict that has a function in tool_functions is registered; actions is
\* the set of the action names of the groups
\* lines 26-30 of tools/base.py: the definition stored for an action
ToolDefinition(action_name, context) ==
    [name |-> action_name,
     description |-> IF context = "" THEN "Execute " \o action_name \o " action"
                     ELSE context]

\* register_tools storing a definition for every action named by a group
register_tools_Unmatched(reg, actions, tool_functions, context) ==
    LET names == { a \in actions : a \in tool_functions }
    IN  [functions |-> reg.functions \cup names,
         tool_definitions |->
             [n \in DOMAIN reg.tool_definitions \cup actions |->
                 IF n \in actions THEN ToolDefinition(n, context)
                 ELSE reg.tool_definitions[n]]]

register_tools(reg, actions, tool_functions, context) ==
    LET names == { a \in actions : a \in tool_functions }
    IN  [functions |-> reg.functions \cup names,
         tool_definitions |->
             [n \in DOMAIN reg.tool_definitions \cup names |->
                 IF n \in names THEN ToolDefinition(n, context)
                 ELSE reg.tool_definitions[n]]]

\* ToolRegistry.get_tools_for_action: a copy of the definitions
get_tools_for_action(reg) == reg.tool_definitions
\* clear leaving the tool definitions in place
clear_FunctionsOnly(reg) == [functions |-> {}, tool_definitions |-> reg.tool_definitions]

\* ToolRegistry.clear
clear(reg) == [functions |-> {}, tool_definitions |-> <<>>]

\* CustomAddonConfig(**addon_config): the validator raises when the secrets
\* lack anthropic_api_key; then loadAddonConfig returns False
loadAddonConfig(a, secrets) ==
    IF "anthropic_api_key" \notin secrets
    THEN [addon |-> a, ret |-> FALSE]
    ELSE [addon |-> [a EXCEPT !.config = [loaded |-> TRUE, secrets |-> secrets]],
          ret |-> TRUE]

\* CredentialsRegistry.store_multiple: every supplied pair is stored
store_multiple(credentials, kwargs) ==
    [n \in CredNames |-> IF kwargs[n] # PyNone THEN kwargs[n] ELSE credentials[n]]

\* line 148: self.config and hasattr(self.config, 'secrets'); {} is falsy
RequiredSecrets(a) == IF a.config.loaded THEN a.config.secrets ELSE {}
\* loadCredentials storing before it validates
loadCredentials_StoreFirst(a, kwargs) ==
    LET missing_secrets == { n \in RequiredSecrets(a) : kwargs[n] = PyNone }
        stored == [a EXCEPT !.credentials = store_multiple(a.credentials, kwargs)]
    IN  [addon |-> stored, ret |-> (missing_secrets = {})]

\* AnthropicRoomsAddon.loadCredentials; kwargs[n] = PyNone: n is not supplied
loadCredentials(a, kwargs) ==
    LET missing_secrets == { n \in RequiredSecrets(a) : kwargs[n] = PyNone }
    IN  IF missing_secrets # {}
        THEN [addon |-> a, ret |-> FALSE]
        ELSE [addon |-> [a EXCEPT !.credentials = store_multiple(a.credentials, kwargs)],
              ret |-> TRUE]
\* the keyword arguments with the tools passed whatever the registry holds
PassedKwargs_Always(a, kwargs) ==
    [kwargs EXCEPT !.tools = get_tools_for_action(a.tool_registry),
                   !.has_tools = TRUE, !.has_tool_registry = TRUE]

\* lines 39-47: the keyword arguments AnthropicRoomsAddon.chat_completion
\* hands to the orchestrator, from those of its caller
PassedKwargs(a, kwargs) ==
    LET tools == get_tools_for_action(a.tool_registry)
    IN  IF DOMAIN tools # {}
        THEN [kwargs EXCEPT !.tools = tools, !.has_tools = TRUE,
                            !.has_tool_registry = TRUE]
        ELSE kwargs

\* keyword arguments of a caller of AnthropicRoomsAddon.chat_completion
CallerKwargs == { [NoKwargs EXCEPT !.temperature = t] : t \in {PyNone, "0.5"} }

Called(op, args, a, ret, passed) ==
    [op |-> op, prev |-> last.op, before |-> addon, args |-> args, ret |-> ret,
     passed |-> passed]

AddonInit ==
    /\ CallAtRest
    /\ tool_registry \in { r \in Registries : r.kind = "None" }
    /\ observer = FALSE
    /\ runs = [r \in RunIds |-> IdleRun]
    /\ addon = NewAddon
    /\ last = NoLast
    /\ pure = NoPure
    /\ flight = NoFlight

Rest == <<call_vars, tool_registry, observer, runs, pure, flight>>

\* the context argument of loadTools: empty, or a text
Contexts == {"", "math tools"}

\* AnthropicRoomsAddon.loadTools
LoadTools ==
    /\ \E actions \in SUBSET ToolNames, tool_functions \in {{"add"}, ToolNames},
          context \in Contexts :
         /\ addon' = [addon EXCEPT !.tool_registry =
                          register_tools(addon.tool_registry, actions, tool_functions,
                                         context)]
         /\ last' = Called("loadTools", [actions |-> actions, functions |-> tool_functions,
                                         context |-> context],
                           addon, PyNone, NoKwargs)
    /\ UNCHANGED Rest

\* AnthropicRoomsAddon.clearTools
ClearTools ==
    /\ addon' = [addon EXCEPT !.tool_registry = clear(addon.tool_registry)]
    /\ last' = Called("clearTools", <<>>, addon, PyNone, NoKwargs)
    /\ UNCHANGED Rest

\* AnthropicRoomsAddon.loadAddonConfig
LoadAddonConfig ==
    /\ \E secrets \in SUBSET CredNames :
         /\ addon' = loadAddonConfig(addon, secrets).addon
         /\ last' = Called("loadAddonConfig", [secrets |-> secrets], addon,
                           loadAddonConfig(addon, secrets).ret, NoKwargs)
    /\ UNCHANGED Rest

\* AnthropicRoomsAddon.loadCredentials
LoadCredentials ==
    /\ \E kwargs \in [CredNames -> {PyNone, "secret"}] :
         /\ addon' = loadCredentials(addon, kwargs).addon
         /\ last' = Called("loadCredentials", [kwargs |-> kwargs], addon,
                           loadCredentials(addon, kwargs).ret, NoKwargs)
    /\ UNCHANGED Rest

\* the caller sets observer_callback and addon_id on the addon
AssignObserver ==
    /\ addon' = [addon EXCEPT !.observer_callback = TRUE]
    /\ last' = Called("observer_callback", <<>>, addon, PyNone, NoKwargs)
    /\ UNCHANGED Rest

\* addon.py 47: the configuration handed to the orchestrator is self.config,
\* the dict {} of __init__ until loadAddonConfig has succeeded
ConfigOf(a) ==
    IF a.config.loaded THEN GoodConfig ELSE [secrets |-> "noattr", has_model |-> FALSE]

\* chat_completion.py 185-195 and 395-411: how the orchestrator gets past its
\* first statements with configuration cfg
EntryOutcome(cfg) ==
    IF ConfigError(cfg) # "" THEN Except(cfg, ConfigError(cfg))
    ELSE [pc |-> "call_first", result |-> NoResult]

\* AnthropicRoomsAddon.chat_completion, up to the first request of the
\* orchestrator
AddonChatCompletion ==
    /\ \E kwargs \in CallerKwargs :
         last' = Called("chat_completion", [kwargs |-> kwargs], addon,
                        EntryOutcome(ConfigOf(addon)), PassedKwargs(addon, kwargs))
    /\ UNCHANGED addon
    /\ UNCHANGED Rest

AddonNext ==
    \/ LoadTools
    \/ ClearTools
    \/ LoadAddonConfig
    \/ LoadCredentials
    \/ AssignObserver
    \/ AddonChatCompletion

AddonSpec == AddonInit /\ [][AddonNext]_vars

\* ------------------------------------- a call through the addon under way
\* chat_completion.py 225-236 / 309-313: the tool list of a request, the
\* definitions of the tools argument; nothing when no tools were passed
FormattedTools(tools) == { tools[n] : n \in DOMAIN tools }

FlightInit ==
    /\ CallAtRest
    /\ tool_registry \in { r \in Registries : r.kind = "None" }
    /\ observer = FALSE
    /\ runs = [r \in RunIds |-> IdleRun]
    /\ addon = NewAddon
    /\ last = NoLast
    /\ pure = NoPure
    /\ flight = NoFlight

\* addon.py 37-47: the call takes the export of the registry and hands it to
\* the orchestrator
FlightStart ==
    /\ flight.pc = "idle"
    /\ \E kwargs \in CallerKwargs :
         /\ flight' = [pc |-> "running", passed |-> PassedKwargs(addon, kwargs),
                       at_start |-> addon.tool_registry.tool_definitions,
                       rounds |-> <<>>]
         /\ last' = Called("chat_completion", [kwargs |-> kwargs], addon, PyNone,
                           PassedKwargs(addon, kwargs))
    /\ UNCHANGED <<call_vars, tool_registry, observer, runs, pure, addon>>

\* FlightRound advertising what the registry holds when the request is sent
FlightRound_Live ==
    /\ flight.pc = "running"
    /\ Len(flight.rounds) < MaxRounds
    /\ flight' = [flight EXCEPT !.rounds =
                     Append(@, [tools |-> FormattedTools(get_tools_for_action(
                                              addon.tool_registry)),
                                changed |-> addon.tool_registry.tool_definitions
                                                # flight.at_start])]
    /\ UNCHANGED <<call_vars, tool_registry, observer, runs, pure, addon, last>>

\* chat_completion.py 225-240 / 297-316: one request to the remote model;
\* changed: the registry no longer holds what it held at the start
FlightRound ==
    /\ flight.pc = "running"
    /\ Len(flight.rounds) < MaxRounds
    /\ flight' = [flight EXCEPT !.rounds =
                     Append(@, [tools |-> FormattedTools(flight.passed.tools),
                                changed |-> addon.tool_registry.tool_definitions
                                                # flight.at_start])]
    /\ UNCHANGED <<call_vars, tool_registry, observer, runs, pure, addon, last>>

\* the call returns
FlightReturn ==
    /\ flight.pc = "running"
    /\ flight.rounds # <<>>
    /\ flight' = [flight EXCEPT !.pc = "done"]
    /\ UNCHANGED <<call_vars, tool_registry, observer, runs, pure, addon, last>>

FlightNext ==
    \/ LoadTools
    \/ ClearTools
    \/ FlightStart
    \/ FlightRound
    \/ FlightReturn

FlightSpec == FlightInit /\ [][FlightNext]_vars

\* ------------------------------------------------ the helper functions alone
\* results a tool function may hand to the classification
ClassifyValues ==
    {NoneResult, StrResult("4"), StrResult("RETRY")}
    \cup { ToolValue(shape, "", hasCode, code, hasMsg, msg) :
              shape \in {"obj", "dict"}, hasCode \in BOOLEAN,
              code \in {0, 200, 399, 400, 500}, hasMsg \in BOOLEAN, msg \in {"", "boom"} }

ParamNames == {"p", "q"}

\* texts a remote model may put where a structure is expected
Texts == {"[1, 2]", "{'a': 1}", "{oops", "[x]", "{[1]: 2}", "null", " None ", "", "plain"}

ParamValues == { StrV(t) : t \in Texts } \cup {NoneV, NativeV("[1, 2]")}

ToolInputs ==
    {NoInput} \cup { DictInput(items) :
                       items \in UNION { [S -> ParamValues] : S \in SUBSET ParamNames } }

\* the schema of one parameter: 'type' and 'default' (absent, null or a value)
ParamSchemas == [type : {"object", "array", "string"}, default : {"absent", "null", "value"}]

ToolDefinitions ==
    {[hasSchema |-> FALSE, properties |-> <<>>]}
    \cup { [hasSchema |-> TRUE, properties |-> pr] :
              pr \in UNION { [S -> ParamSchemas] : S \in SUBSET ParamNames } }

\* the tools argument: None (the default of chat_completion) or a mapping
ToolMaps ==
    {[isNone |-> TRUE, defs |-> <<>>]}
    \cup { [isNone |-> FALSE, defs |-> d] :
              d \in UNION { [S -> ToolDefinitions] : S \in {{}, {"add"}} } }

PureInit ==
    /\ CallAtRest
    /\ tool_registry \in { r \in Registries : r.kind = "None" }
    /\ observer = FALSE
    /\ runs = [r \in RunIds |-> IdleRun]
    /\ addon = NewAddon
    /\ last = NoLast
    /\ flight = NoFlight
    /\ \/ \E v \in ClassifyValues :
             pure = [fn |-> "_determine_tool_success", applied |-> FALSE,
                     args |-> [tool_result |-> v], out |-> Return(NoneV)]
       \/ \E i \in ToolInputs, t \in ToolMaps :
             pure = [fn |-> "_parse_tool_input", applied |-> FALSE,
                     args |-> [tool_input |-> i, tool_name |-> "add", tools |-> t],
                     out |-> Return(NoneV)]

\* lines 115-116: the classification of a returned result
Classify ==
    /\ pure.fn = "_determine_tool_success" /\ ~pure.applied
    /\ LET success == _determine_tool_success(pure.args.tool_result)
           error_message == IF ~success THEN _extract_error_message(pure.args.tool_result)
                            ELSE PyNone
       IN  pure' = [pure EXCEPT !.applied = TRUE,
                                !.out = [raised |-> FALSE, exc |-> "", success |-> success,
                                         error_message |-> error_message]]
    /\ UNCHANGED <<call_vars, tool_registry, observer, runs, addon, last, flight>>

\* line 110: the coercion of a tool input
ParseToolInput ==
    /\ pure.fn = "_parse_tool_input" /\ ~pure.applied
    /\ pure' = [pure EXCEPT !.applied = TRUE,
                            !.out = _parse_tool_input(pure.args.tool_input,
                                        pure.args.tool_name, pure.args.tools)]
    /\ UNCHANGED <<call_vars, tool_registry, observer, runs, addon, last, flight>>

PureNext ==
    \/ Classify
    \/ ParseToolInput

PureSpec == PureInit /\ [][PureNext]_vars

\* ------------------------------------------------------------------ history
ToolEvents == { trace[i] : i \in { j \in DOMAIN trace : trace[j].ev = "tool" } }

\* the responses received so far, in order
Received == SelectSeq(trace, LAMBDA e : e.ev = "request" /\ e.ok)

Returned == pc = "done" /\ result.code = 200

\* the adapter answered with the retry signal of lines 141 / 169
RetrySignal(e) == e.branch \in {"failure_retry", "exception_retry"}

\* the tool function of the event failed: it raised or its result is
\* classified as failed
ToolFailed(e) ==
    e.invoked /\ (e.run.raises \/ ~_determine_tool_success(e.run.value))

\* the observer raised during the event
ObserverRaised(e) == e.invoked /\ (e.run.f1 \/ e.run.f2)

MaxRetriesOf(name) == tool_registry.max_retries[name]

RECURSIVE Total(_, _)
Total(events, field) ==
    IF events = <<>> THEN 0
    ELSE (IF field = "input_tokens" THEN Head(events).response.input_tokens
          ELSE Head(events).response.output_tokens) + Total(Tail(events), field)

\* two conversation messages are the same; contents of different forms are
\* never compared
SameMessage(a, b) == a.role = b.role /\ a.form = b.form /\ a.content = b.content

\* conversation a is the beginning of conversation b
IsPrefix(a, b) ==
    /\ Len(a) <= Len(b)
    /\ \A i \in DOMAIN a : SameMessage(a[i], b[i])

\* the adapter calls of round n, in order
ToolEventsOf(n) == SelectSeq(trace, LAMBDA e : e.ev = "tool" /\ e.n = n)

\* the adapter calls of round n for which a tool-result block was built
ResolvedOf(n) ==
    SelectSeq(trace, LAMBDA e : e.ev = "tool" /\ e.n = n /\ e.content # PyNone)

\* the tool-result blocks produced in round n, in order
ResultBlocksOf(n) ==
    [i \in 1..Len(ResolvedOf(n)) |->
        ToolResultBlock(ResolvedOf(n)[i].id, ResolvedOf(n)[i].content)]

\* the request events of round n (none or one)
RequestOf(n) == SelectSeq(trace, LAMBDA e : e.ev = "request" /\ e.n = n)

\* the conversation at the end of round n so far: the one sent with the next
\* request, or the present one
ConversationAfter(n) ==
    IF RequestOf(n + 1) # <<>> THEN RequestOf(n + 1)[1].sent ELSE conversation_messages

\* the orchestrator saw RETRY from the adapter in round n and built no block
RetryOnlyRound(n) ==
    /\ ToolEventsOf(n) # <<>>
    /\ \A i \in DOMAIN ToolEventsOf(n) :
          ~ToolEventsOf(n)[i].raised /\ ToolEventsOf(n)[i].tool_result = RETRY

\* round n produced a tool-result block or gave the orchestrator a RETRY
Productive(n) ==
    \E i \in DOMAIN ToolEventsOf(n) :
        /\ ~ToolEventsOf(n)[i].raised
        /\ \/ ToolEventsOf(n)[i].content # PyNone
           \/ ToolEventsOf(n)[i].tool_result = RETRY

\* the positions of the tool_use blocks of a content
ToolUsePositions(content) == { i \in DOMAIN content : content[i].type = "tool_use" }

\* the tool-result blocks are in the order of the blocks they answer
InBlockOrder(results) ==
    \A a, b \in DOMAIN results :
        a < b => results[a].tool_use_id[2] < results[b].tool_use_id[2]

\* the text of the text blocks of a content, in block order
RECURSIVE TextOf(_)
TextOf(content) ==
    IF content = <<>> THEN ""
    ELSE (IF Head(content).type = "text" THEN Head(content).text ELSE "")
         \o TextOf(Tail(content))

\* the text of the responses of a sequence of request events, in round order
RECURSIVE TextOfAll(_)
TextOfAll(events) ==
    IF events = <<>> THEN ""
    ELSE TextOf(Head(events).response.content) \o TextOfAll(Tail(events))

\* str(e) of the exceptions chat_completion can catch
ErrorTexts ==
    { ConfigError(c) : c \in Configs }
    \cup { "remote error", "tool error", "observer error",
           "'ToolRegistry' object has no attribute 'get_max_retries'" }

\* ------------------------------------------------------------------- claims
\* C1: when the dispatch of a round, the first included, produced a RETRY
\* signal for a failed tool, a further request is sent to the remote model
\* before the run returns.
C1_RetryIsResent ==
    Returned =>
        \A e \in ToolEvents : RetrySignal(e) => \E q \in DOMAIN Received : Received[q].n > e.n

\* C2: per tool name the retry counter stays in 0..max_retries, at most
\* max_retries RETRY signals are returned, and a failure met with the counter
\* at max_retries is terminal: no RETRY, counter unchanged.
C2_RetryBudget ==
    /\ \A t \in ToolNames :
         /\ tool_retry_counts[t] \in 0..MaxRetriesOf(t)
         /\ Cardinality({ i \in DOMAIN trace :
                trace[i].ev = "tool" /\ trace[i].name = t /\ RetrySignal(trace[i]) })
              <= MaxRetriesOf(t)
    /\ \A e \in ToolEvents :
         ToolFailed(e) /\ e.before[e.name] = MaxRetriesOf(e.name)
            => /\ e.tool_result # RETRY
               /\ ~RetrySignal(e)
               /\ e.after = e.before

\* a failure after the budget of max_retries >= 1 was used up was terminal
C2_Witness ==
    \E e \in ToolEvents :
        /\ ToolFailed(e) /\ ~e.raised
        /\ MaxRetriesOf(e.name) >= 1
        /\ e.before[e.name] = MaxRetriesOf(e.name)
        /\ e.branch \in {"failure_terminal", "exception_terminal"}

\* C3: a tool failure with the budget exhausted, classified or raised, makes
\* the adapter return (None, error message) and the orchestrator emit a
\* tool-result block whose content is the error text.
C3_TerminalFailureIsErrorBlock ==
    \A e \in ToolEvents :
        ToolFailed(e) /\ ~e.raised /\ ~ObserverRaised(e)
        /\ e.before[e.name] >= MaxRetriesOf(e.name)
            => /\ e.tool_result = NoneResult
               /\ e.content = "Error executing tool: " \o Fmt(e.error_message)

\* C4: the stop_reason of a successful result is the stop reason of the last
\* response received in the run.
C4_StopReasonOfLastResponse ==
    Returned => result.stop_reason = Received[Len(Received)].response.stop_reason

\* C5: when the first response holds only text blocks, no tool is dispatched,
\* exactly one request is sent, the run returns successfully and
\* total_tokens = input_tokens + output_tokens.
C5_TextOnly ==
    (Len(Received) >= 1
     /\ \A i \in DOMAIN Received[1].response.content :
            Received[1].response.content[i].type = "text")
        => /\ ToolEvents = {}
           /\ Requests = 1
           /\ pc \in {"blocks_first", "loop", "done"}
           /\ pc = "done" =>
                /\ result.code = 200
                /\ result.usage.total_tokens
                     = result.usage.input_tokens + result.usage.output_tokens
                /\ result.usage.input_tokens = Received[1].response.input_tokens
                /\ result.usage.output_tokens = Received[1].response.output_tokens

\* a run with a registry returned after a first response of text blocks
C5_Witness ==
    /\ Returned
    /\ tool_registry.kind = "WithMaxRetries"
    /\ Len(Received[1].response.content) = MaxBlocks
    /\ \A i \in DOMAIN Received[1].response.content :
            Received[1].response.content[i].type = "text"

\* C6: a tool-use block naming a tool the registry does not hold resolves in
\* its round to a tool-result block with the not-found message, changes no
\* retry counter, signals no RETRY, and the run goes on to the next round.
C6_NotFoundIsResolved ==
    \A e \in ToolEvents :
        e.name \notin tool_registry.functions
            => /\ ~e.raised
               /\ e.content = "Error executing tool: Tool " \o e.name \o " not found"
               /\ e.after = e.before
               /\ e.tool_result # RETRY
               /\ (pc = "done" /\ ~trace[Len(trace)].ev = "tool"
                     => \E i \in DOMAIN trace : trace[i].ev = "request" /\ trace[i].n > e.n)

\* C7: a successful run returns as input_tokens / output_tokens the sums over
\* every response received, and total_tokens = input_tokens + output_tokens.
C7_UsageIsSum ==
    Returned =>
        /\ result.usage.input_tokens = Total(Received, "input_tokens")
        /\ result.usage.output_tokens = Total(Received, "output_tokens")
        /\ result.usage.total_tokens
             = result.usage.input_tokens + result.usage.output_tokens

\* a run of three rounds, one of which only carried a retry, returned
C7_Witness ==
    /\ Returned
    /\ Len(Received) >= 3
    /\ \E e \in ToolEvents : RetrySignal(e) /\ e.n >= 2

\* C8: no fault escapes chat_completion: a call that fails returns code 500,
\* a response text starting with the error description, zero usage and
\* stop_reason "error"; any other call returns code 200.
C8_NoFaultEscapes ==
    /\ pc # "escaped"
    /\ pc = "done" =>
         \/ result.code = 200
         \/ /\ result.code = 500
            /\ \E x \in ErrorTexts : result.response = "Error: " \o x
            /\ result.usage = Usage(0, 0, 0)
            /\ result.stop_reason = "error"

\* C9: a failed request to the remote model, in the first or a later round,
\* ends the run: nothing is sent or invoked after it and the structured
\* failure result (code 500, zero usage) is returned.
C9_RemoteFailureEndsRun ==
    \A i \in DOMAIN trace :
        trace[i].ev = "request" /\ ~trace[i].ok
            => /\ i = Len(trace)
               /\ pc = "done"
               /\ result.code = 500
               /\ result.response = "Error: remote error"
               /\ result.usage = Usage(0, 0, 0)
               /\ result.stop_reason = "error"

\* the request of a later round failed after a tool had been executed
C9_Witness ==
    /\ Len(trace) >= 3
    /\ trace[Len(trace)].ev = "request" /\ ~trace[Len(trace)].ok
    /\ trace[Len(trace)].n >= 2
    /\ \E e \in ToolEvents : e.invoked

\* C10: an observer that raises when notified of a tool execution does not
\* abort the run: the adapter returns what it returns when the notification
\* succeeds, and the run can still end with code 200.
C10_ObserverFaultIsHarmless ==
    \A e \in ToolEvents :
        ObserverRaised(e)
            => /\ ~e.raised
               /\ (~ToolFailed(e) => e.branch = "success")
               /\ (pc = "done" /\ e = trace[Len(trace)] => result.code = 200)

\* C11: the retry counters belong to one chat_completion call: every call
\* starts with all counters at zero, its counters count its own RETRY signals
\* only, and a failure is retried whenever the call itself has used fewer than
\* max_retries retries, whatever other calls on the registry have used.
C11_CountersPerRun ==
    \A r \in RunIds : \A t \in ToolNames :
        /\ runs[r].tool_retry_counts[t] = RetriesIn(runs[r].log, t, Len(runs[r].log))
        /\ \A i \in DOMAIN runs[r].log :
             LET e == runs[r].log[i]
             IN  /\ e.before[t] = RetriesIn(runs[r].log, t, i - 1)
                 /\ (e.name = t /\ e.failed
                      /\ RetriesIn(runs[r].log, t, i - 1) < MaxRetriesOf(t))
                        => e.branch \in {"failure_retry", "exception_retry"}

\* a call was just granted its first retry while another call in flight on
\* the same registry has used up the whole budget of that tool
C11_Witness ==
    \E r \in RunIds : \E o \in RunIds \ {r} :
        /\ runs[r].log # <<>>
        /\ LET e == runs[r].log[Len(runs[r].log)]
           IN  /\ e.branch \in {"failure_retry", "exception_retry"}
               /\ e.before[e.name] = 0
               /\ MaxRetriesOf(e.name) >= 1
               /\ runs[o].pc = "running"
               /\ runs[o].tool_retry_counts[e.name] = MaxRetriesOf(e.name)

\* C12: the response text of a successful run is the concatenation of the text
\* of every text block of every response received, in round order and, within
\* a round, in block order; tool-use blocks contribute nothing.
C12_ResponseTextIsConcatenation ==
    Returned => result.response = TextOfAll(Received)

\* a run returned whose first response held a text block and a tool-use block
\* and whose later response held a text block
C12_Witness ==
    /\ Returned
    /\ Len(Received) >= 2
    /\ \E i, j \in DOMAIN Received[1].response.content :
          /\ Received[1].response.content[i].type = "text"
          /\ Received[1].response.content[j].type = "tool_use"
    /\ \E i \in DOMAIN Received[2].response.content :
          Received[2].response.content[i].type = "text"
    /\ result.response # ""

\* C13: after ToolRegistry.clear, get_function returns absent for every name
\* and get_tools_for_action returns an empty mapping; clearing an empty
\* registry (clearing twice) leaves the same empty state.
C13_ClearEmpties ==
    last.op = "clearTools" =>
        /\ \A n \in ToolNames : ~get_function(addon.tool_registry, n)
        /\ DOMAIN get_tools_for_action(addon.tool_registry) = {}
        /\ addon.tool_registry = clear(NewAddon.tool_registry)
        /\ (last.before.tool_registry = NewAddon.tool_registry => addon = last.before)

\* the registry was cleared a second time in a row
C13_Witness ==
    /\ last.op = "clearTools"
    /\ last.prev = "clearTools"
    /\ last.before.tool_registry = clear(NewAddon.tool_registry)

C15_ObserverForwarded ==
    last.op = "chat_completion" =>
        last.passed.observer_callback = last.before.observer_callback

C17_LookupAnswers ==
    \A e \in ToolEvents : e.branch # "lookup_raised"

\* C18: when a round produced a tool-result block and a further request was
\* sent, the conversation sent holds the assistant message with the content
\* of that round's response followed by the user message with every
\* tool-result block of the round, also when another block signalled RETRY.
C18_ResultsAreAppended ==
    \A k \in DOMAIN Received :
        LET n == Received[k].n
        IN  (ResolvedOf(n) # <<>> /\ RequestOf(n + 1) # <<>>)
              => \E j \in 1..(Len(ConversationAfter(n)) - 1) :
                    /\ j > Len(Received[k].sent)
                    /\ SameMessage(ConversationAfter(n)[j],
                                   AssistantEcho(Received[k].response))
                    /\ SameMessage(ConversationAfter(n)[j + 1],
                                   ToolResultsMessage(ResultBlocksOf(n)))

\* C19: whenever the adapter returns the RETRY signal it has increased the
\* counter of the tool by one and appended one retry-guidance message naming
\* the tool and the error, for classified failures whatever their message and
\* for raised exceptions.
C19_RetryCountsAndGuides ==
    \A i \in DOMAIN trace :
        (trace[i].ev = "tool" /\ RetrySignal(trace[i]))
            => /\ trace[i].after = [trace[i].before EXCEPT ![trace[i].name] = @ + 1]
               /\ trace[i].appended = 1
               /\ \E j \in DOMAIN conversation_messages :
                     SameMessage(conversation_messages[j],
                                 RetryGuidance(trace[i].name, trace[i].error_message))

\* C20: in a round whose dispatch gave RETRY and no tool-result block, the
\* messages added to the conversation between the request of the round and
\* the next request (or the return) are the adapter's retry-guidance messages
\* only: neither the assistant echo nor a tool-result message.
C20_RetryOnlyRoundAppendsNothing ==
    \A k \in DOMAIN Received :
        LET n == Received[k].n
            before == Received[k].sent
            after == ConversationAfter(n)
        IN  RetryOnlyRound(n)
              => /\ Len(after) >= Len(before)
                 /\ SubSeq(after, 1, Len(before)) = before
                 /\ \A j \in (Len(before) + 1)..Len(after) :
                       \E i \in DOMAIN ToolEventsOf(n) :
                          SameMessage(after[j],
                                      RetryGuidance(ToolEventsOf(n)[i].name,
                                                    ToolEventsOf(n)[i].error_message))

\* a later round gave only RETRY, with its guidance, and the next request was
\* sent
C20_Witness ==
    \E k \in DOMAIN Received :
        /\ Received[k].n >= 2
        /\ RetryOnlyRound(Received[k].n)
        /\ RequestOf(Received[k].n + 1) # <<>>
        /\ Len(ConversationAfter(Received[k].n)) > Len(Received[k].sent)

\* C21: a round that produced neither a tool-result block nor a RETRY signal
\* is the last one: no further request is sent after it, the loop test fails
\* and the result is returned.
C21_UnproductiveRoundIsLast ==
    /\ \A k \in DOMAIN Received :
          RequestOf(Received[k].n + 1) # <<>> => Productive(Received[k].n)
    /\ pc = "call_next" => Productive(Requests)
    /\ (pc = "loop" /\ ~Productive(Requests)) => ~LoopCondition(tool_results, should_retry)
    /\ (Received # <<>> /\ pc = "done" /\ ~Productive(Requests)
         /\ trace[Len(trace)].ev = "request" /\ trace[Len(trace)].ok) => result.code = 200

\* after a round with a tool result the model answered with text only and
\* the run returned
C21_Witness ==
    /\ Returned
    /\ Len(Received) >= 2
    /\ Productive(1)
    /\ Received[Len(Received)].response.content # <<>>
    /\ \A i \in DOMAIN Received[Len(Received)].response.content :
          Received[Len(Received)].response.content[i].type = "text"

\* C22: during one run the conversation only grows: every step leaves all
\* earlier messages in place and in order, and the conversation sent with
\* every request is the beginning of every later conversation.
C22_ConversationOnlyGrows ==
    [][/\ IsPrefix(conversation_messages, conversation_messages')
       /\ \A i \in DOMAIN trace' :
             trace'[i].ev = "request"
                => IsPrefix(trace'[i].sent, conversation_messages')]_vars

\* a third request was sent after a tool failure had added its retry guidance
C22_Witness ==
    /\ Len(Received) >= 3
    /\ \E e \in ToolEvents : RetrySignal(e) /\ e.appended = 1
    /\ Len(conversation_messages) >= 4

\* C23: within one response the tool-use blocks are dispatched one at a time
\* in block order, none is passed over, and the tool-result blocks of the
\* round are in the relative order of their tool-use blocks.
C23_DispatchInBlockOrder ==
    /\ \A i \in DOMAIN trace :
          trace[i].ev = "tool" =>
              \E j \in 1..(i - 1) :
                  /\ trace[j].ev = "request" /\ trace[j].ok
                  /\ trace[j].n = trace[i].n
                  /\ trace[i].id[1] = trace[i].n
                  /\ trace[i].id[2] \in ToolUsePositions(trace[j].response.content)
                  /\ trace[j].response.content[trace[i].id[2]].name = trace[i].name
                  /\ Cardinality({ q \in ToolUsePositions(trace[j].response.content) :
                                      q <= trace[i].id[2] }) = i - j
    /\ InBlockOrder(tool_results)
    /\ \A j \in DOMAIN conversation_messages :
          conversation_messages[j].form = "results"
             => InBlockOrder(conversation_messages[j].content)

\* the results of two tool-use blocks of one response were sent back
C23_Witness ==
    \E j \in DOMAIN conversation_messages :
        /\ conversation_messages[j].form = "results"
        /\ Len(conversation_messages[j].content) >= 2

\* C24: in a round with a tool registry the tool-result blocks produced are
\* as many as the tool-use blocks of the response for which the adapter did
\* not return RETRY; each carries the id of its own tool-use block and a
\* string as content.
C24_OneBlockPerResolvedToolUse ==
    (tool_registry.kind # "None" /\ pc \in {"blocks_first", "blocks_next", "loop"}) =>
        LET n == Requests
            content == Received[Len(Received)].response.content
            handled == { q \in ToolUsePositions(content) : pc = "loop" \/ q < idx }
            evs == ToolEventsOf(n)
            kept == SelectSeq(evs, LAMBDA e : e.tool_result # RETRY)
        IN  /\ Len(evs) = Cardinality(handled)
            /\ Len(tool_results) =
                  Cardinality({ q \in handled :
                      \E a \in DOMAIN evs : evs[a].id = content[q].id
                                              /\ evs[a].tool_result # RETRY })
            /\ Len(tool_results) = Len(kept)
            /\ \A i \in DOMAIN tool_results :
                  /\ tool_results[i].type = "tool_result"
                  /\ tool_results[i].tool_use_id = kept[i].id
                  /\ tool_results[i].content \in STRING
                  /\ tool_results[i].content # PyNone
                  /\ tool_results[i].content \in
                        { Str(kept[i].tool_result),
                          "Error executing tool: " \o Fmt(kept[i].error_message) }

\* a finished round with two tool-use blocks: one answered with RETRY, the
\* other with a tool-result block
C24_Witness ==
    /\ pc = "loop"
    /\ Len(ToolEventsOf(Requests)) = 2
    /\ Len(tool_results) = 1
    /\ tool_results[1].tool_use_id = ToolEventsOf(Requests)[2].id

\* C29: the retry flag of a round is set only if the adapter increased a
\* retry counter in that round; a tool that executed successfully never
\* causes a retry round, whatever it returns.
C29_RetryFlagNeedsCount ==
    /\ \A e \in ToolEvents :
          (~e.raised /\ e.tool_result = RETRY) =>
              /\ e.after # e.before
              /\ e.branch # "success"
    /\ (should_retry /\ pc \in {"blocks_next", "loop"}) =>
          \E a \in DOMAIN ToolEventsOf(Requests) :
              ToolEventsOf(Requests)[a].after # ToolEventsOf(Requests)[a].before

\* C30: an error text is the content of a tool-result block only for a tool
\* that was not found or failed terminally; a tool that executed successfully
\* always yields a block with the string form of its result, also for None.
C30_ErrorTextOnlyForFailure ==
    \A e \in ToolEvents :
        ~e.raised =>
            /\ e.content = "Error executing tool: " \o Fmt(e.error_message)
                  => e.branch \in {"not_found", "failure_terminal", "exception_terminal"}
            /\ e.branch = "success" => e.content = Str(e.run.value)

C26_KeysKeptAndPassThrough ==
    (pure.fn = "_parse_tool_input" /\ pure.applied /\ ~pure.out.raised) =>
        LET in == pure.args.tool_input
            out == pure.out.value
            tools == pure.args.tools
            declared == IF ~tools.isNone /\ pure.args.tool_name \in DOMAIN tools.defs
                        THEN tools.defs[pure.args.tool_name].properties ELSE <<>>
            again == _parse_tool_input(out, pure.args.tool_name, tools)
        IN  /\ out.isNone = in.isNone
            /\ DOMAIN out.items = DOMAIN in.items
            /\ \A q \in DOMAIN in.items :
                  (\/ q \notin DOMAIN declared
                   \/ in.items[q].kind # "str"
                   \/ declared[q].type \notin {"object", "array"})
                      => out.items[q] = in.items[q]
            /\ ~again.raised /\ again.value = out

\* a string was coerced next to an undeclared parameter and a native value
C26_Witness ==
    /\ pure.fn = "_parse_tool_input" /\ pure.applied /\ ~pure.out.raised
    /\ DOMAIN pure.args.tool_input.items = ParamNames
    /\ pure.args.tool_input.items["p"] = StrV("{'a': 1}")
    /\ pure.out.value.items["p"] = NativeV("{'a': 1}")
    /\ pure.args.tool_input.items["q"] = StrV("[1, 2]")
    /\ pure.out.value.items["q"] = StrV("[1, 2]")

\* C27: a string of an object- or array-typed parameter whose trimmed text is
\* null, None or empty becomes None when the schema declares no default or a
\* null one, and stays the original string when it declares another default.
C27_NullishFollowsDefault ==
    (pure.fn = "_parse_tool_input" /\ pure.applied /\ ~pure.out.raised
       /\ ~pure.args.tools.isNone /\ "add" \in DOMAIN pure.args.tools.defs) =>
        LET in == pure.args.tool_input
            properties == pure.args.tools.defs["add"].properties
        IN  \A q \in DOMAIN in.items \cap DOMAIN properties :
                (/\ in.items[q] \in {StrV("null"), StrV(" None "), StrV("")}
                 /\ properties[q].type \in {"object", "array"})
                    => pure.out.value.items[q] =
                          IF properties[q].default \in {"absent", "null"}
                          THEN NoneV ELSE in.items[q]

\* one nullish text became None, another stayed as it was
C27_Witness ==
    /\ pure.fn = "_parse_tool_input" /\ pure.applied /\ ~pure.out.raised
    /\ DOMAIN pure.args.tool_input.items = ParamNames
    /\ pure.args.tool_input.items["p"] = StrV(" None ")
    /\ pure.out.value.items["p"] = NoneV
    /\ pure.args.tool_input.items["q"] = StrV("null")
    /\ pure.out.value.items["q"] = StrV("null")

\* C28: the coercion never fails: for every tool input, tool name and tools
\* argument it returns a value, passing a string through when it cannot be
\* parsed.
C28_CoercionNeverFails ==
    (pure.fn = "_parse_tool_input" /\ pure.applied) => ~pure.out.raised

\* C31: in every conversation sent to the remote model each assistant message
\* is immediately followed by a user message of tool-result blocks in which
\* every tool-use block of the assistant message has exactly one tool-result
\* block with its id, also for rounds that mix a retried tool with resolved
\* ones.
C31_EveryToolUseIsAnswered ==
    \A i \in DOMAIN trace :
        trace[i].ev = "request" =>
            \A j \in DOMAIN trace[i].sent :
                trace[i].sent[j].role = "assistant" =>
                    /\ j < Len(trace[i].sent)
                    /\ trace[i].sent[j + 1].role = "user"
                    /\ trace[i].sent[j + 1].form = "results"
                    /\ \A q \in ToolUsePositions(trace[i].sent[j].content) :
                          Cardinality({ a \in DOMAIN trace[i].sent[j + 1].content :
                              trace[i].sent[j + 1].content[a].tool_use_id
                                  = trace[i].sent[j].content[q].id }) = 1

\* C32: every conversation sent to the remote model ends with a message of
\* role user: the new user message, a retry-guidance message or a tool-result
\* message, never the assistant echo.
C32_SentConversationEndsWithUser ==
    \A i \in DOMAIN trace :
        trace[i].ev = "request" =>
            LET sent == trace[i].sent
                final == sent[Len(sent)]
            IN  /\ sent # <<>>
                /\ final.role = "user"
                /\ \/ final.form = "results"
                   \/ SameMessage(final, UserMessage)
                   \/ \E e \in ToolEvents :
                         SameMessage(final, RetryGuidance(e.name, e.error_message))

\* one request was sent right after a tool-result message, a later one right
\* after a retry guidance
C32_Witness ==
    \E i, j \in DOMAIN trace :
        /\ i < j
        /\ trace[i].ev = "request" /\ trace[j].ev = "request"
        /\ trace[i].sent[Len(trace[i].sent)].form = "results"
        /\ trace[j].sent[Len(trace[j].sent)].form = "text"
        /\ Len(trace[j].sent) > Len(trace[i].sent)

\* C33: the retry counter of a tool changes only when that tool fails with
\* budget remaining, and then by one: a success, a terminal failure, a lookup
\* that finds nothing and a call of another tool leave it unchanged, and no
\* counter ever decreases.
C33_CounterMovesOnlyOnRetry ==
    \A e \in ToolEvents :
        \/ e.after = e.before
        \/ /\ e.after = [e.before EXCEPT ![e.name] = @ + 1]
           /\ ToolFailed(e)
           /\ e.before[e.name] < MaxRetriesOf(e.name)

C36_ObserverLeavesSuccessAlone ==
    \A e \in ToolEvents :
        (e.invoked /\ ~e.run.raises /\ _determine_tool_success(e.run.value)) =>
            /\ ~e.raised
            /\ e.branch = "success"
            /\ e.tool_result = e.run.value
            /\ e.error_message = PyNone
            /\ e.after = e.before
            /\ e.appended = 0
            /\ observer => e.notified = 1

\* C37: without a tool registry the tool-use blocks of a response are
\* ignored: no tool function is invoked, no tool-result block and no retry
\* is produced, and the run returns after exactly one request with the text
\* of that single response.
C37_NoRegistryIgnoresToolUse ==
    tool_registry.kind = "None" =>
        /\ ToolEvents = {}
        /\ tool_results = <<>>
        /\ ~should_retry
        /\ tool_retry_counts = [t \in ToolNames |-> 0]
        /\ Requests <= 1
        /\ pc \notin {"call_next", "blocks_next"}
        /\ Len(conversation_messages) <= 1
        /\ (pc = "loop" => ~LoopCondition(tool_results, should_retry))
        /\ Returned =>
              /\ Requests = 1
              /\ result.response = TextOf(Received[1].response.content)

\* a run without registry returned the text of a response that also held a
\* tool-use block
C37_Witness ==
    /\ tool_registry.kind = "None"
    /\ Returned
    /\ result.response # ""
    /\ \E i \in DOMAIN Received[1].response.content :
          Received[1].response.content[i].type = "tool_use"

\* C38: in every order of addon operations AnthropicRoomsAddon.chat_completion
\* does not raise; called before loadAddonConfig has succeeded, or after it
\* failed, it returns the code-500 failure result.
C38_AddonCallNeverRaises ==
    last.op = "chat_completion" =>
        /\ last.ret.pc # "escaped"
        /\ ~last.before.config.loaded =>
              /\ last.ret.pc = "done"
              /\ last.ret.result.code = 500
====
